---- MODULE Spec2Model ----
(***************************************************************************)
(* Orchestration core of the poker LLM arena: the betting loop of          *)
(* GameOrchestrator._play_hand (src/main.py) and Orchestrator._play_hand   *)
(* (src/test.py), the response parser, the token validator, apply_token,   *)
(* the seat rotation, the per-agent conversation memory of BasePlayer      *)
(* (src/players/base_player.py) and Player (src/player.py), and the        *)
(* end-of-match report.  The rules engine (pokerkit) is an external        *)
(* collaborator; it is modelled from its contract (spec section 6).        *)
(*                                                                         *)
(* Text is modelled as a sequence of lexemes ("raise_to", ":", " ", "3",   *)
(* "@", ...), so that split, strip, the token grammar and int() are        *)
(* computed the way the code computes them.                                *)
(***************************************************************************)
EXTENDS Integers, Sequences, FiniteSets, TLC

(***************************************************************************)
(* Bounds of the model and program constants.                              *)
(***************************************************************************)
\* starting stack of every agent (400 in test.py, 10000 in game_config.py)
InitialStack == 3
\* decision requests issued in one match (unbounded in the program)
MaxTurns == 3
\* number of agents of a GameOrchestrator match (len(PLAYER_CONFIGS))
MaxPlayers == 3
\* largest raise amount a modelled provider response names
MaxAmount == 3
\* largest table size of the seat-mapping specification
MaxK == 6
\* rounds settled in the round-end specification
MaxRounds == 7
\* len(self.hand_summaries) > 5
SummaryCapacity == 5
\* hands played by one run (hands_to_play)
Hands == 3
\* BLINDS = GAME_CONFIG["blinds"]: the configured small and big blind
BLINDS == <<50, 100>>
\* raw_blinds_or_straddles and min_bet handed to the engine
SmallBlind == 1
BigBlind == 2
MinBet == 2
\* index of the last street of the engine (pre flop, flop, turn, river)
LastStreet == 3

VARIABLES
    variant,               \* "main": GameOrchestrator + BasePlayer; "test": Orchestrator + Player
    nplayers,              \* len(self.players)
    config,                \* enable_reflection of GAME_CONFIG and of every PLAYER_CONFIGS entry
    pc,                    \* position of run()/_play_hand
    h,                     \* number of hands run() has completed (its loop index)
    dealer_position,       \* self.dealer_position
    stack,                 \* player.stack, by agent index
    conversation_history,  \* player.conversation_history, by agent index
    hand_history,          \* player.hand_history, by agent index
    notes,                 \* player.notes, by agent index
    hand_summaries,        \* player.hand_summaries, by agent index (BasePlayer)
    st,                    \* the engine state of the current hand
    hand_data,             \* the record of the current (or last) hand
    request,               \* the outstanding decision request
    transcript,            \* full_messages handed to the provider for that request
    last,                  \* what the last loop iteration did (response, token, engine calls)
    error,                 \* the exception that left run(), if any
    turns,                 \* decision requests issued so far
    report,                \* the end-of-match report
    sm,                    \* state of the seat-mapping specification
    render,                \* state of the summary-rendering specification
    factory,               \* state of the player-factory specification
    observed               \* what happened in the match so far: the record of every
                           \* settled round and the number of illegal-move fallbacks

vars == << variant, nplayers, config, factory, render, pc, h, dealer_position, stack, conversation_history,
           hand_history, notes, hand_summaries, st, hand_data, request, transcript, last, error,
           turns, report, sm, observed >>

(***************************************************************************)
(* Text helpers (python str methods on lexeme sequences).                  *)
(***************************************************************************)
Whitespace == {" ", "\n"}
Digits == <<"0", "1", "2", "3", "4", "5", "6", "7", "8", "9">>
DigitSet == {Digits[i] : i \in 1..10}

DigitVal(d) == (CHOOSE i \in 1..10 : Digits[i] = d) - 1

\* str(n) for 0 <= n <= 99
IntToStr(n) == IF n < 10 THEN <<Digits[n + 1]>>
               ELSE <<Digits[(n \div 10) + 1], Digits[(n % 10) + 1]>>

RECURSIVE LStrip(_)
LStrip(s) == IF s # <<>> /\ Head(s) \in Whitespace THEN LStrip(Tail(s)) ELSE s

RECURSIVE RStrip(_)
RStrip(s) == IF s # <<>> /\ s[Len(s)] \in Whitespace
             THEN RStrip(SubSeq(s, 1, Len(s) - 1)) ELSE s

\* str.strip()
Strip(s) == RStrip(LStrip(s))

\* index of the first occurrence of sep in s, 0 if none
RECURSIVE FirstIndex(_, _, _)
FirstIndex(s, sep, i) == IF i > Len(s) THEN 0
                         ELSE IF s[i] = sep THEN i
                         ELSE FirstIndex(s, sep, i + 1)

\* str.split(sep): the list of the parts between the separators
RECURSIVE Split(_, _)
Split(s, sep) ==
    LET i == FirstIndex(s, sep, 1)
    IN  IF i = 0 THEN <<s>>
        ELSE <<SubSeq(s, 1, i - 1)>> \o Split(SubSeq(s, i + 1, Len(s)), sep)

\* the number of characters of a lexeme
LexLen(x) == IF x = "raise_to" THEN 8
             ELSE IF x = "NOTES:" THEN 6
             ELSE IF x = "check" THEN 5
             ELSE IF x \in {"fold", "call", "blah", "mate"} THEN 4
             ELSE 1

\* s[n:]; what is left of a lexeme that is cut inside is the lexeme "..."
RECURSIVE DropChars(_, _)
DropChars(s, n) == IF n <= 0 \/ s = <<>> THEN s
                   ELSE IF LexLen(Head(s)) <= n
                   THEN DropChars(Tail(s), n - LexLen(Head(s)))
                   ELSE <<"...">> \o Tail(s)

\* str.startswith(word), word one lexeme
StartsWith(s, word) == s # <<>> /\ s[1] = word

AllDigits(s) == s # <<>> /\ \A i \in 1..Len(s) : s[i] \in DigitSet

\* int(s) of a digit string
RECURSIVE ToInt(_)
ToInt(s) == IF s = <<>> THEN 0
            ELSE 10 * ToInt(SubSeq(s, 1, Len(s) - 1)) + DigitVal(s[Len(s)])

\* LEGAL_TOKEN_RE = ^(fold|check|call|raise_to:\s*\d+)$ matched on a stripped token
LEGAL_TOKEN_RE(tok) ==
    \/ tok \in {<<"fold">>, <<"check">>, <<"call">>}
    \/ /\ Len(tok) >= 3
       /\ tok[1] = "raise_to"
       /\ tok[2] = ":"
       /\ AllDigits(LStrip(SubSeq(tok, 3, Len(tok))))

(***************************************************************************)
(* The rules engine (pokerkit NoLimitTexasHoldem state with every          *)
(* automation on), from its contract: blinds are posted and cards dealt at *)
(* creation, so a fresh state waits for the first actor or is already      *)
(* complete.  Cards are not modelled: a hand that reaches the showdown is   *)
(* left pending by the mutators and decided by Deal with rank, the order   *)
(* of the hand strengths of the seats still in the hand (best first),      *)
(* which the action that makes the engine call draws nondeterministically. *)
(***************************************************************************)
Seats(K) == 0..(K - 1)

Min(a, b) == IF a < b THEN a ELSE b
Max(a, b) == IF a > b THEN a ELSE b

RECURSIVE SumOver(_, _)
SumOver(f, S) == IF S = {} THEN 0
                 ELSE LET x == CHOOSE y \in S : TRUE
                      IN  f[x] + SumOver(f, S \ {x})

MaxOver(f, S) == CHOOSE m \in {f[x] : x \in S} : \A x \in S : f[x] <= m

\* the seats in playing order, starting at seat `first`
CyclicFrom(first, K) == [i \in 1..K |-> (first + i - 1) % K]

\* the sequences that list every seat of S once
Orders(S) ==
    {r \in [1..Cardinality(S) -> S] : \A s \in S : \E i \in 1..Cardinality(S) : r[i] = s}

\* heads-up the engine reverses the blinds: seat 0 posts the big blind
BlindOf(seat, K) ==
    IF K = 2 THEN (IF seat = 0 THEN BigBlind ELSE SmallBlind)
    ELSE IF seat = 0 THEN SmallBlind ELSE IF seat = 1 THEN BigBlind ELSE 0
BigBlindSeat(K) == IF K = 2 THEN 0 ELSE 1

NoEngine == [status |-> FALSE, K |-> 0, pending |-> FALSE]

ActiveSeats(e) == {i \in Seats(e.K) : e.statuses[i]}
MaxBet(e) == MaxOver(e.bets, Seats(e.K))

\* a fault: the seat at the end of the queue is taken for the actor
ActorIndexLast(e) ==
    IF e.status /\ ~e.pending /\ e.queue # <<>> THEN e.queue[Len(e.queue)] ELSE -1

\* st.actor_index (None is modelled as -1)
ActorIndex(e) == IF e.status /\ ~e.pending /\ e.queue # <<>> THEN Head(e.queue) ELSE -1

\* showdown: each ranked seat in turn takes from every seat what it covers
RECURSIVE PayOut(_, _, _, _)
PayOut(stacks, contrib, rank, K) ==
    IF rank = <<>> THEN stacks
    ELSE LET w == Head(rank)
             take == [i \in Seats(K) |-> Min(contrib[i], contrib[w])]
         IN  PayOut([stacks EXCEPT ![w] = @ + SumOver(take, Seats(K))],
                    [i \in Seats(K) |-> contrib[i] - take[i]], Tail(rank), K)

Showdown(e, rank) ==
    LET contrib == [i \in Seats(e.K) |-> e.starting[i] - e.stacks[i]]
    IN  [e EXCEPT !.stacks = PayOut(e.stacks, contrib, rank, e.K),
                  !.bets = [i \in Seats(e.K) |-> 0], !.pot = 0,
                  !.queue = <<>>, !.status = FALSE, !.pending = FALSE]

\* the outcomes the cards can give a pending showdown
Ranks(e) == IF e.pending THEN Orders(ActiveSeats(e)) ELSE {<<>>}

\* the engine state once the cards have decided a pending showdown
Deal(e, rank) == IF e.pending THEN Showdown(e, rank) ELSE e

\* every other seat folded: the last seat in the hand takes the pot and the bets
WinByFold(e) ==
    LET w == CHOOSE i \in Seats(e.K) : e.statuses[i]
    IN  [e EXCEPT !.stacks[w] = @ + e.pot + SumOver(e.bets, Seats(e.K)),
                  !.bets = [i \in Seats(e.K) |-> 0], !.pot = 0,
                  !.queue = <<>>, !.status = FALSE]

RECURSIVE BeginBetting(_)
\* bets are collected; the next street opens, or the hand is shown down
EndBetting(e) ==
    LET c == [e EXCEPT !.pot = @ + SumOver(e.bets, Seats(e.K)),
                       !.bets = [i \in Seats(e.K) |-> 0], !.queue = <<>>]
    IN  IF e.street_index = LastStreet THEN [c EXCEPT !.pending = TRUE]
        ELSE BeginBetting([c EXCEPT !.street_index = @ + 1, !.raise_amt = 0])

\* a street opens: the seats still in the hand with chips act in order; with
\* nobody left to act, or one seat that owes nothing, the street is skipped
BeginBetting(e) ==
    LET first == IF e.street_index = 0 THEN (BigBlindSeat(e.K) + 1) % e.K ELSE 0
        q == SelectSeq(CyclicFrom(first, e.K),
                       LAMBDA i : e.statuses[i] /\ e.stacks[i] > 0)
    IN  IF q = <<>> \/ (Len(q) = 1 /\ e.bets[q[1]] >= MaxBet(e))
        THEN EndBetting(e)
        ELSE [e EXCEPT !.queue = q]

\* NoLimitTexasHoldem.create_state(automations, False, {0: 0}, (1, 2), 2, stacks, n)
CreateState(stacks, K) ==
    LET posted == [i \in Seats(K) |-> Min(BlindOf(i, K), stacks[i])]
    IN  BeginBetting([K |-> K, status |-> TRUE, starting |-> stacks,
                      stacks |-> [i \in Seats(K) |-> stacks[i] - posted[i]],
                      bets |-> posted, statuses |-> [i \in Seats(K) |-> TRUE],
                      pot |-> 0, street_index |-> 0, raise_amt |-> 0,
                      queue |-> <<>>, pending |-> FALSE])

\* the actor has acted: the hand ends, the street ends, or the next seat acts
AfterAction(e) ==
    IF Cardinality(ActiveSeats(e)) = 1 THEN WinByFold(e)
    ELSE IF e.queue = <<>> THEN EndBetting(e)
    ELSE e

\* st.checking_or_calling_amount
CheckingOrCallingAmount(e) ==
    LET a == ActorIndex(e) IN Min(e.stacks[a], MaxBet(e) - e.bets[a])

\* st.can_fold(): folding is refused when the actor owes nothing
CanFold(e) == ActorIndex(e) # -1 /\ e.bets[ActorIndex(e)] < MaxBet(e)

\* st.can_check_or_call()
CanCheckOrCall(e) == ActorIndex(e) # -1

\* st.min_completion_betting_or_raising_to_amount
MinRaiseTo(e) ==
    LET a == ActorIndex(e)
    IN  Min(MaxBet(e) + Max(e.raise_amt, MinBet), e.stacks[a] + e.bets[a])

\* st.can_complete_bet_or_raise_to(amount)
CanRaiseTo(e, amount) ==
    LET a == ActorIndex(e)
    IN  /\ a # -1
        /\ e.stacks[a] > MaxBet(e) - e.bets[a]
        /\ \E i \in ActiveSeats(e) \ {a} : e.stacks[i] > 0
        /\ amount >= MinRaiseTo(e)
        /\ amount <= e.stacks[a] + e.bets[a]

\* st.fold(), when accepted
Fold(e) ==
    AfterAction([e EXCEPT !.statuses[ActorIndex(e)] = FALSE, !.queue = Tail(@)])

\* st.check_or_call(), when accepted
CheckOrCall(e) ==
    LET a == ActorIndex(e)
        amt == CheckingOrCallingAmount(e)
    IN  AfterAction([e EXCEPT !.stacks[a] = @ - amt, !.bets[a] = @ + amt,
                              !.queue = Tail(@)])

\* st.complete_bet_or_raise_to(amount), when accepted
RaiseTo(e, amount) ==
    LET a == ActorIndex(e)
        r == [e EXCEPT !.raise_amt = Max(@, amount - MaxBet(e)),
                       !.stacks[a] = @ - (amount - e.bets[a]),
                       !.bets[a] = amount]
        q == SelectSeq(CyclicFrom((a + 1) % e.K, e.K),
                       LAMBDA i : i # a /\ r.statuses[i] /\ r.stacks[i] > 0)
    IN  AfterAction([r EXCEPT !.queue = q])

(***************************************************************************)
(* PromptAdapter (src/main.py, src/test.py).                               *)
(***************************************************************************)
CannotRaise == <<"Cannot Raise">>

\* a fault: the amount 0 stands for "raising is not permitted"
VisibleStateZeroSentinel(e, player) ==
    [stack |-> e.stacks[player],
     to_call |-> IF CanCheckOrCall(e) THEN CheckingOrCallingAmount(e) ELSE 0,
     min_raise_to |-> IF CanRaiseTo(e, MinRaiseTo(e))
                      THEN IntToStr(MinRaiseTo(e)) ELSE IntToStr(0),
     street_index |-> e.street_index]

\* PromptAdapter.visible_state: the fields the orchestration reads
VisibleState(e, player) ==
    [stack |-> e.stacks[player],
     to_call |-> IF CanCheckOrCall(e) THEN CheckingOrCallingAmount(e) ELSE 0,
     min_raise_to |-> IF CanRaiseTo(e, MinRaiseTo(e))
                      THEN IntToStr(MinRaiseTo(e)) ELSE CannotRaise,
     street_index |-> e.street_index]

\* the raise_to entry of legal_tokens
RaiseEntry(e) ==
    <<"raise_to", ":", " ">> \o IntToStr(MinRaiseTo(e)) \o <<" ", "to", " ">>
        \o IntToStr(e.stacks[ActorIndex(e)])

\* faults: check is offered whatever is owed; the raise_to entry is left out
\* when raising is not permitted
LegalTokensAlwaysCheck(e) ==
    (IF CanFold(e) THEN << <<"fold">> >> ELSE <<>>)
    \o (IF CanCheckOrCall(e) THEN << <<"check">> >> ELSE <<>>)
    \o << RaiseEntry(e) >>
LegalTokensRaiseWhenPermitted(e) ==
    (IF CanFold(e) THEN << <<"fold">> >> ELSE <<>>)
    \o (IF CanCheckOrCall(e)
        THEN (IF CheckingOrCallingAmount(e) = 0 THEN << <<"check">> >>
              ELSE << <<"call">> >>)
        ELSE <<>>)
    \o (IF CanRaiseTo(e, MinRaiseTo(e)) THEN << RaiseEntry(e) >> ELSE <<>>)

\* PromptAdapter.legal_tokens
LegalTokens(e) ==
    (IF CanFold(e) THEN << <<"fold">> >> ELSE <<>>)
    \o (IF CanCheckOrCall(e)
        THEN (IF CheckingOrCallingAmount(e) = 0 THEN << <<"check">> >>
              ELSE << <<"call">> >>)
        ELSE <<>>)
    \o << RaiseEntry(e) >>

EngineCall(e, op, amount, accepted) ==
    [op |-> op, amount |-> amount, accepted |-> accepted, seat |-> ActorIndex(e)]

\* PromptAdapter.apply_token: the engine state it leaves, whether it raised an
\* exception, and the engine mutators it invoked
ApplyToken(e, tok) ==
    IF tok = <<"fold">>
    THEN IF CanFold(e)
         THEN [st |-> Fold(e), raised |-> FALSE,
               calls |-> <<EngineCall(e, "fold", 0, TRUE)>>]
         ELSE [st |-> e, raised |-> TRUE,
               calls |-> <<EngineCall(e, "fold", 0, FALSE)>>]
    ELSE IF StartsWith(tok, "check") \/ StartsWith(tok, "call")
    THEN [st |-> CheckOrCall(e), raised |-> FALSE,
          calls |-> <<EngineCall(e, "check_or_call", CheckingOrCallingAmount(e), TRUE)>>]
    ELSE IF StartsWith(tok, "raise_to")
    THEN LET parts == Split(tok, ":")
             arg == IF Len(parts) >= 2 THEN Strip(parts[2]) ELSE <<>>
         IN  IF Len(parts) < 2 \/ ~AllDigits(arg)
             THEN [st |-> e, raised |-> TRUE, calls |-> <<>>]
             ELSE IF CanRaiseTo(e, ToInt(arg))
             THEN [st |-> RaiseTo(e, ToInt(arg)), raised |-> FALSE,
                   calls |-> <<EngineCall(e, "raise", ToInt(arg), TRUE)>>]
             ELSE [st |-> e, raised |-> TRUE,
                   calls |-> <<EngineCall(e, "raise", ToInt(arg), FALSE)>>]
    ELSE [st |-> e, raised |-> TRUE, calls |-> <<>>]

(***************************************************************************)
(* Players: BasePlayer (src/players/base_player.py) and Player             *)
(* (src/player.py).  A message is its role, what it is and the hand it was *)
(* exchanged in; the substring tests of the code are decided by what the   *)
(* message is.                                                             *)
(***************************************************************************)
Message(role, tag, hand) == [role |-> role, tag |-> tag, hand |-> hand]

SystemMessage == Message("system", "system", -1)

\* "Hand #" in msg["content"]: the hand summaries and the reflection prompt
ContainsHandMark(m) == m.tag \in {"summary", "memory", "reflection_prompt"}
\* "Your current notes:" in msg["content"]
ContainsNotesReminder(m) == m.tag = "notes_reminder"
\* "Hand reflection:" in msg["content"]
ContainsReflection(m) == m.tag = "reflection"

\* BasePlayer._get_current_hand_messages
CurrentHandMessages(conv) ==
    SelectSeq(conv, LAMBDA m : ~(m.role = "user" /\ ContainsHandMark(m)))

\* BasePlayer._clear_conversation_for_new_hand
ClearConversationForNewHand(conv) ==
    SelectSeq(conv, LAMBDA m : \/ (m.role = "assistant" /\ ContainsReflection(m))
                               \/ (m.role = "user" /\ ContainsNotesReminder(m)))

\* the last user message is added unless it already ends the history
AppendsPrompt(conv, prompt) ==
    prompt.role = "user" /\ (conv = <<>> \/ prompt # conv[Len(conv)])

\* BasePlayer.ask: full_messages
BaseFullMessages(conv, history, summaries, prompt) ==
    <<SystemMessage>>
    \o (IF history # <<>> /\ summaries # <<>>
        THEN <<Message("user", "memory", -1)>> ELSE <<>>)
    \o CurrentHandMessages(conv)
    \o (IF AppendsPrompt(conv, prompt) THEN <<prompt>> ELSE <<>>)

\* Player.ask: full_messages
PlayerFullMessages(conv, prompt) ==
    <<SystemMessage>> \o conv
    \o (IF AppendsPrompt(conv, prompt) THEN <<prompt>> ELSE <<>>)

\* ask, after the provider returned: the history gains the prompt and the response
AskRecord(conv, prompt, hand) ==
    conv \o (IF AppendsPrompt(conv, prompt) THEN <<prompt>> ELSE <<>>)
         \o <<Message("assistant", "response", hand)>>

\* "\n".join(parts)
RECURSIVE JoinLines(_)
JoinLines(parts) ==
    IF parts = <<>> THEN <<>>
    ELSE IF Len(parts) = 1 THEN parts[1]
    ELSE parts[1] \o <<"\n">> \o JoinLines(Tail(parts))

\* make_decision: the lines from the first line that starts with NOTES: on
NoteLines(response) ==
    LET lines == Split(response, "\n")
        first == IF \E i \in 1..Len(lines) : StartsWith(lines[i], "NOTES:")
                 THEN CHOOSE i \in 1..Len(lines) :
                        /\ StartsWith(lines[i], "NOTES:")
                        /\ \A j \in 1..(i - 1) : ~StartsWith(lines[j], "NOTES:")
                 ELSE 0
    IN  IF first = 0 THEN <<>> ELSE SubSeq(lines, first, Len(lines))

\* make_decision: "\n".join(note_line[6:].strip() for note_line in note_lines)
NotePayload(response) ==
    LET nl == NoteLines(response)
    IN  JoinLines([i \in 1..Len(nl) |-> Strip(DropChars(nl[i], 6))])

\* make_decision: what it returns to the orchestrator
DecisionReturn(response) ==
    IF NoteLines(response) # <<>> THEN Split(response, "\n")[1] ELSE response

\* a fault: the new notes replace the old ones
BaseUpdateNotesOverwrite(old, new_notes) == new_notes

\* BasePlayer.update_notes
BaseUpdateNotes(old, new_notes) ==
    IF new_notes = <<>> THEN old ELSE old \o <<"\n">> \o new_notes

\* Player.update_notes
PlayerUpdateNotes(old, new_notes) ==
    IF new_notes = <<>> THEN old
    ELSE IF old # <<>> THEN old \o <<"\n">> \o new_notes ELSE new_notes

\* make_decision: the notes after a response
NotesAfter(v, old, response) ==
    IF NoteLines(response) = <<>> THEN old
    ELSE IF v = "main" THEN BaseUpdateNotes(old, NotePayload(response))
    ELSE PlayerUpdateNotes(old, NotePayload(response))

\* Player.update_memory: the history gains the hand summary and, with notes, a reminder
PlayerUpdateMemoryConv(conv, agent_notes, hand) ==
    conv \o <<Message("user", "summary", hand)>>
         \o (IF agent_notes # <<>> THEN <<Message("user", "notes_reminder", hand)>>
             ELSE <<>>)

(***************************************************************************)
(* The orchestrator: GameOrchestrator (src/main.py), Orchestrator          *)
(* (src/test.py).                                                          *)
(***************************************************************************)
Agents == 0..(nplayers - 1)

\* faults the properties below must tell from the code: a decision request that
\* ignores the rotation, a position computed by adding the offset, a dealer that
\* never moves, a validation that lets every token through
ActualPlayerIdxUnrotated(plr_idx, dealer, K) == plr_idx % K
PlayerPositionAdded(idx, dealer_pos, K) == (idx + dealer_pos) % K
RotateDealerStuck(dealer, K) == dealer % K
ValidateAnything(tok) == tok

\* actual_player_idx = (plr_idx + self.dealer_position) % len(self.players)
ActualPlayerIdx(plr_idx, dealer, K) == (plr_idx + dealer) % K

\* get_players_in_position_order: the agent index at each position
PlayersInPositionOrder(dealer, K) == [i \in Seats(K) |-> (i + dealer) % K]

\* player_position = (idx - dealer_pos) % len(self.players)
PlayerPosition(idx, dealer_pos, K) == (idx - dealer_pos) % K

\* self.dealer_position = (self.dealer_position + 1) % len(self.players)
RotateDealer(dealer, K) == (dealer + 1) % K

\* the hand number _play_hand is called with: range(self.hands) in main.py,
\* range(1, self.hands + 1) in test.py
HandNo(v, done) == IF v = "test" THEN done + 1 ELSE done

\* the validation of _play_hand: a token outside the grammar becomes fold
Validate(tok) == IF LEGAL_TOKEN_RE(tok) THEN tok ELSE <<"fold">>

\* the responses a provider may return: "<token>@c", text without @, a commentary
\* that holds a second @, a raise with a blank before the amount, and responses
\* with a NOTES: line (with a payload, without one, with a second line)
WithCommentary(tok) == tok \o <<"@", "c">>
\* a line of note text that follows the NOTES: line
LaterLine == <<"s", "e", "c", "o", "n", "d", " ", "x">>
Responses ==
    {WithCommentary(<<"fold">>), WithCommentary(<<"check">>), WithCommentary(<<"call">>),
     WithCommentary(<<"check", " ", "mate">>),
     <<"blah">>, <<"fold">>,
     WithCommentary(<<"check">>) \o <<"@", "d">>,
     WithCommentary(<<"raise_to", ":", " ">> \o IntToStr(MaxAmount)),
     WithCommentary(<<"call">>) \o <<"\n", "NOTES:", " ", "n">>,
     WithCommentary(<<"call">>) \o <<"\n", "NOTES:">>,
     WithCommentary(<<"call">>) \o <<"\n", "NOTES:", " ", "n", "\n">> \o LaterLine}
    \cup {WithCommentary(<<"raise_to", ":">> \o IntToStr(n)) : n \in 1..MaxAmount}

NoError == [type |-> "none", site |-> "none"]
NoRequest == [agent |-> -1, seat |-> -1, legal |-> <<>>,
              game_state |-> [stack |-> 0, to_call |-> 0, min_raise_to |-> <<>>,
                              street_index |-> 0],
              can_raise |-> FALSE, min_raise_to |-> 0, max_raise_to |-> 0]
NoLast == [raw |-> <<>>, rsp |-> <<>>, parsed |-> FALSE, token |-> <<>>, matched |-> FALSE,
           raised |-> FALSE, calls |-> <<>>, asked |-> NoRequest,
           agent |-> -1, seat |-> -1, hand |-> -1]
NoHand == [hand_id |-> -1, starting_stacks |-> <<>>, actions |-> <<>>,
           dealer_position |-> 0, final_stacks |-> <<>>, profit |-> <<>>]
NoReport == [illegal_moves |-> 0, wins |-> <<>>, profit |-> <<>>, vpip |-> <<>>, pfr |-> <<>>,
             warning |-> FALSE]
\* preflop: the recorded actions taken before the first board cards, each as
\* << hand id, index in the action list >>
\* reflections: the reflection requests issued, each as << agent, hand id >>
NothingObserved == [rounds |-> <<>>, fallbacks |-> 0, preflop |-> {}, reflections |-> {}]
SeatOff == [pc |-> "off", K |-> 0, o |-> 0, a |-> 0, seat |-> 0, back |-> 0]
RenderOff == [pc |-> "off", operations |-> <<>>, actions |-> <<>>]
NoPlayer == [cls |-> "none", raised |-> "none", message |-> "none"]
FactoryOff == [pc |-> "off", provider |-> "none", model |-> "none", result |-> NoPlayer]

\* GAME_CONFIG["enable_reflection"] is False; of the PLAYER_CONFIGS entries the
\* first has enable_reflection True, the others False
ShippedConfig(K) == [enable_reflection |-> FALSE, players |-> [a \in Seats(K) |-> a = 0]]

\* self.enable_reflection of agent a: create_player is called with name,
\* provider, model and initial_stack, so the constructor default stays
EnableReflection(cfg, a) == FALSE

\* GameOrchestrator.__init__ / Orchestrator.__init__
Init ==
    /\ variant \in {"main", "test"}
    /\ nplayers \in (IF variant = "test" THEN {2} ELSE 2..MaxPlayers)
    /\ config = ShippedConfig(nplayers)
    /\ factory = FactoryOff
    /\ pc = "idle"
    /\ h = 0
    /\ dealer_position = 0
    /\ stack = [a \in Agents |-> InitialStack]
    /\ conversation_history = [a \in Agents |-> <<>>]
    /\ hand_history = [a \in Agents |-> <<>>]
    /\ notes = [a \in Agents |-> <<>>]
    /\ hand_summaries = [a \in Agents |-> <<>>]
    /\ st = NoEngine
    /\ hand_data = NoHand
    /\ request = NoRequest
    /\ transcript = <<>>
    /\ last = NoLast
    /\ error = NoError
    /\ turns = 0
    /\ report = NoReport
    /\ sm = SeatOff
    /\ observed = NothingObserved
    /\ render = RenderOff

agent_vars == << stack, conversation_history, hand_history, notes, hand_summaries >>

\* a fault: only negative stacks are refused
InvalidStacksNegativeOnly(stacks, K) == \E i \in Seats(K) : stacks[i] < 0

\* _make_state: for i in stacks: if i <= 0: raise ValueError
InvalidStacks(stacks, K) == \E i \in Seats(K) : stacks[i] <= 0

\* _play_hand up to the betting loop: _make_state and the hand record.  The
\* record's starting_stacks are list(st.stacks) of the state just created, the
\* stacks the engine shows once the blinds are posted.
StartHand ==
    /\ pc = "idle"
    /\ h < Hands
    /\ LET order == PlayersInPositionOrder(dealer_position, nplayers)
           stacks == [i \in Seats(nplayers) |-> stack[order[i]]]
       IN  IF InvalidStacks(stacks, nplayers)
           THEN /\ pc' = "crashed"
                /\ error' = [type |-> "ValueError", site |-> "make_state"]
                /\ UNCHANGED << st, hand_data >>
           ELSE /\ \E rank \in Ranks(CreateState(stacks, nplayers)) :
                      st' = Deal(CreateState(stacks, nplayers), rank)
                /\ hand_data' = [hand_id |-> HandNo(variant, h),
                                 starting_stacks |-> st'.stacks,
                                 actions |-> <<>>,
                                 dealer_position |-> dealer_position,
                                 final_stacks |-> <<>>, profit |-> <<>>]
                /\ pc' = "loop"
                /\ error' = error
    /\ UNCHANGED << variant, nplayers, config, factory, render, h, dealer_position, agent_vars, request,
                    transcript, last, turns, report, sm, observed >>

\* the betting loop up to the provider call: the actor's agent is asked
Dispatch ==
    /\ pc = "loop"
    /\ st.status
    /\ ActorIndex(st) # -1
    /\ turns < MaxTurns
    /\ LET plr_idx == ActorIndex(st)
           agent == ActualPlayerIdx(plr_idx, dealer_position, nplayers)
           prompt == Message("user", "prompt", hand_data.hand_id)
       IN  /\ request' = [agent |-> agent, seat |-> plr_idx,
                          legal |-> LegalTokens(st),
                          game_state |-> VisibleState(st, plr_idx),
                          can_raise |-> CanRaiseTo(st, MinRaiseTo(st)),
                          min_raise_to |-> MinRaiseTo(st),
                          max_raise_to |-> st.stacks[plr_idx] + st.bets[plr_idx]]
           /\ transcript' =
                IF variant = "main"
                THEN BaseFullMessages(conversation_history[agent], hand_history[agent],
                                      hand_summaries[agent], prompt)
                ELSE PlayerFullMessages(conversation_history[agent], prompt)
    /\ pc' = "dispatched"
    /\ turns' = turns + 1
    /\ UNCHANGED << variant, nplayers, config, factory, render, h, dealer_position, agent_vars, st, hand_data,
                    last, error, report, sm, observed >>

\* the provider returned r: ask and make_decision finish, the response is parsed,
\* validated and applied, and the new developments are printed; an exception of
\* apply_token or of the printing that follows it in the same try block forces a
\* fold on the engine as it is by then, and an exception of that fold leaves run()
Turn(r, conv, narration) ==
    /\ pc = "dispatched"
    /\ LET agent == request.agent
           rsp == DecisionReturn(r)
           parts == Split(rsp, "@")
           parsed == Len(parts) >= 2
           cand == Strip(parts[1])
           tok == Validate(cand)
           res == ApplyToken(st, tok)
           excepted == res.raised \/ narration = "raised"
           forced == EngineCall(res.st, "fold", 0, CanFold(res.st))
           after == IF ~excepted THEN res.st
                    ELSE IF CanFold(res.st) THEN Fold(res.st) ELSE res.st
       IN  /\ conversation_history' = [conversation_history EXCEPT ![agent] = conv]
           /\ notes' = [notes EXCEPT ![agent] = NotesAfter(variant, @, r)]
           /\ IF ~parsed
              THEN /\ pc' = "crashed"
                   /\ error' = [type |-> "IndexError", site |-> "parse"]
                   /\ last' = [NoLast EXCEPT !.raw = r, !.rsp = rsp, !.agent = agent,
                                             !.asked = request,
                                             !.seat = request.seat,
                                             !.hand = hand_data.hand_id]
                   /\ UNCHANGED << st, hand_data, observed >>
              ELSE /\ observed' =
                        [observed EXCEPT
                            !.fallbacks =
                                IF ~LEGAL_TOKEN_RE(cand) \/ res.raised THEN @ + 1 ELSE @,
                            !.preflop =
                                IF st.street_index = 0
                                THEN @ \cup {<<hand_data.hand_id, Len(hand_data.actions) + 1>>}
                                ELSE @]
                   /\ hand_data' =
                        [hand_data EXCEPT !.actions =
                            Append(@, [player |-> agent, action |-> tok,
                                       commentary |-> parts[2]])]
                   /\ last' = [raw |-> r, rsp |-> rsp, parsed |-> TRUE, token |-> cand,
                               matched |-> LEGAL_TOKEN_RE(cand),
                               raised |-> res.raised,
                               calls |-> IF excepted THEN Append(res.calls, forced)
                                         ELSE res.calls,
                               asked |-> request,
                               agent |-> agent, seat |-> request.seat,
                               hand |-> hand_data.hand_id]
                   /\ \E rank \in Ranks(after) : st' = Deal(after, rank)
                   /\ IF excepted /\ ~CanFold(res.st)
                      THEN /\ pc' = "crashed"
                           /\ error' = [type |-> "ValueError", site |-> "forced_fold"]
                      ELSE /\ pc' = "loop"
                           /\ error' = error
    /\ UNCHANGED << variant, nplayers, config, factory, render, h, dealer_position, stack, hand_history,
                    hand_summaries, request, transcript, turns, report, sm >>

\* a turn of an agent whose make_decision is that of BasePlayer or Player
Respond(r) ==
    /\ pc = "dispatched"
    /\ Turn(r, AskRecord(conversation_history[request.agent],
                         Message("user", "prompt", hand_data.hand_id), hand_data.hand_id),
            "printed")

\* the same turn on a standard output that refuses what is printed after the move
RespondNarrationFails(r) ==
    /\ pc = "dispatched"
    /\ Turn(r, AskRecord(conversation_history[request.agent],
                         Message("user", "prompt", hand_data.hand_id), hand_data.hand_id),
            "raised")

\* a fault: the raise is answered whatever min_raise_to says
GenerateAllInResponseAlwaysRaise(game_state) ==
    <<"raise_to", ":", " ">> \o IntToStr(game_state.stack)
        \o <<"@", "Going all-in with", " ">> \o IntToStr(game_state.stack)
        \o <<" ", "chips!">>

\* AllInPlayer._generate_all_in_response
GenerateAllInResponse(game_state) ==
    IF game_state.min_raise_to = CannotRaise
    THEN IF game_state.to_call = 0
         THEN <<"check", "@", "Going all-in by checking (no bet to call)">>
         ELSE <<"call", "@", "Going all-in by calling", " ">> \o IntToStr(game_state.to_call)
    ELSE <<"raise_to", ":", " ">> \o IntToStr(game_state.stack)
             \o <<"@", "Going all-in with", " ">> \o IntToStr(game_state.stack)
             \o <<" ", "chips!">>

\* the agent of the table that is an AllInPlayer
AllInAgent == 0

\* a turn of the AllInPlayer: its make_decision answers without a provider and
\* appends the prompt and the response to the history
RespondAllIn ==
    /\ pc = "dispatched"
    /\ request.agent = AllInAgent
    /\ Turn(GenerateAllInResponse(request.game_state),
            conversation_history[request.agent]
                \o <<Message("user", "prompt", hand_data.hand_id),
                     Message("assistant", "response", hand_data.hand_id)>>,
            "printed")

\* a turn of one of the other agents
RespondOther(r) ==
    /\ pc = "dispatched"
    /\ request.agent # AllInAgent
    /\ Respond(r)

\* hand_data["result"]["profit_p<i>"] = st.stacks[i] - hand_data["starting_stacks"][i]
Profit(final, starting, K) == [i \in Seats(K) |-> final[i] - starting[i]]

\* for idx, player in enumerate(players_in_position): player.update_stack(st.stacks[idx])
\* (an agent listed at several positions keeps the stack of the last one)
UpdateStacks(old, order, final, K) ==
    [a \in DOMAIN old |->
        IF \E i \in Seats(K) : order[i] = a
        THEN final[CHOOSE i \in Seats(K) :
                     order[i] = a /\ \A j \in Seats(K) : order[j] = a => j <= i]
        ELSE old[a]]

\* _play_hand after the loop: the result, the stacks, the memory, the rotation.
\* BasePlayer.update_memory is a coroutine function that main.py calls without
\* awaiting it: its body never runs.  Player.update_memory is a plain method.
Settle ==
    /\ pc = "loop"
    /\ ~st.status \/ ActorIndex(st) = -1
    /\ LET order == PlayersInPositionOrder(dealer_position, nplayers)
           done == [hand_data EXCEPT
                      !.final_stacks = st.stacks,
                      !.profit = Profit(st.stacks, hand_data.starting_stacks, nplayers)]
       IN  /\ hand_data' = done
           /\ stack' = UpdateStacks(stack, order, st.stacks, nplayers)
           /\ IF variant = "test"
              THEN /\ hand_history' = [a \in Agents |-> Append(hand_history[a], done)]
                   /\ conversation_history' =
                        [a \in Agents |->
                            PlayerUpdateMemoryConv(conversation_history[a], notes[a],
                                                   done.hand_id)]
              ELSE UNCHANGED << hand_history, conversation_history >>
    /\ dealer_position' = RotateDealer(dealer_position, nplayers)
    /\ h' = h + 1
    /\ pc' = "idle"
    /\ observed' = [observed EXCEPT !.rounds = Append(@, hand_data')]
    /\ UNCHANGED << variant, nplayers, config, factory, render, notes, hand_summaries, st, request, transcript,
                    last, error, turns, report, sm >>

\* run() after the last hand: the wins of every agent from its hand history
Wins(idx) ==
    Cardinality({i \in 1..Len(hand_history[idx]) :
        LET hand == hand_history[idx][i]
        IN  hand.profit[PlayerPosition(idx, hand.dealer_position, nplayers)] > 0})

\* "Dealt cards=" in action_type
ContainsDealtCards(action_type) ==
    \E i \in 1..Len(action_type) : action_type[i] = "Dealt cards="

\* run() of test.py: the actions of agent idx that the scan of a hand reaches
\* while is_preflop_action is set
ScannedActions(hand, idx) ==
    LET own == SelectSeq(hand.actions, LAMBDA a : a.player = idx)
        dealt == {k \in 1..Len(own) : ContainsDealtCards(own[k].action)}
    IN  IF dealt = {} THEN own
        ELSE SubSeq(own, 1, (CHOOSE k \in dealt : \A j \in dealt : k <= j) - 1)

\* vpip_counts[idx] = len(vpip_per_hand)
VpipCount(idx) ==
    Cardinality({hand_history[idx][i].hand_id : i \in
        {i \in 1..Len(hand_history[idx]) :
            LET scanned == ScannedActions(hand_history[idx][i], idx)
            IN  \E k \in 1..Len(scanned) :
                    scanned[k].action \notin {<<"fold">>, <<"check">>}}})

\* pfr_counts[idx] = len(pfr_per_hand)
PfrCount(idx) ==
    Cardinality({hand_history[idx][i].hand_id : i \in
        {i \in 1..Len(hand_history[idx]) :
            LET scanned == ScannedActions(hand_history[idx][i], idx)
            IN  \E k \in 1..Len(scanned) :
                    /\ Len(scanned[k].action) >= 2
                    /\ scanned[k].action[1] = "raise_to"
                    /\ scanned[k].action[2] = ":"}})

\* "Warning: Total profit (...) should be zero": the check that closes run() in
\* test.py; the run() of main.py ends with the statistics of the last agent
ZeroSumWarning(v, total_profit) == v = "test" /\ total_profit # 0

\* run() after the last hand; the VPIP and PFR counts are those of test.py
RunReport ==
    /\ pc = "idle"
    /\ h = Hands
    /\ report' = [illegal_moves |-> 0,
                  wins |-> [a \in Agents |-> Wins(a)],
                  profit |-> [a \in Agents |-> stack[a] - InitialStack],
                  vpip |-> IF variant = "test" THEN [a \in Agents |-> VpipCount(a)]
                           ELSE <<>>,
                  pfr |-> IF variant = "test" THEN [a \in Agents |-> PfrCount(a)]
                          ELSE <<>>,
                  warning |-> ZeroSumWarning(variant,
                                  SumOver([a \in Agents |-> stack[a] - InitialStack], Agents))]
    /\ pc' = "done"
    /\ UNCHANGED << variant, nplayers, config, factory, render, h, dealer_position, agent_vars, st, hand_data,
                    request, transcript, last, error, turns, sm, observed >>

\* the two seat conversions applied one after the other, on their own: from an
\* agent index to its seat and back, and from a seat to its agent and back
InitSeat ==
    /\ variant = "main"
    /\ nplayers = 2
    /\ config = ShippedConfig(nplayers)
    /\ factory = FactoryOff
    /\ pc = "seat"
    /\ h = 0
    /\ dealer_position = 0
    /\ stack = [a \in Agents |-> InitialStack]
    /\ conversation_history = [a \in Agents |-> <<>>]
    /\ hand_history = [a \in Agents |-> <<>>]
    /\ notes = [a \in Agents |-> <<>>]
    /\ hand_summaries = [a \in Agents |-> <<>>]
    /\ st = NoEngine
    /\ hand_data = NoHand
    /\ request = NoRequest
    /\ transcript = <<>>
    /\ last = NoLast
    /\ error = NoError
    /\ turns = 0
    /\ report = NoReport
    /\ observed = NothingObserved
    /\ render = RenderOff
    /\ \E K \in 2..MaxK : \E o \in Seats(K) : \E a \in Seats(K) :
          sm = [pc |-> "start", K |-> K, o |-> o, a |-> a, seat |-> 0, back |-> 0]

seat_fixed == << variant, nplayers, config, factory, render, pc, h, dealer_position, agent_vars, st, hand_data,
                 request, transcript, last, error, turns, report, observed >>

\* agent index a to its position: get_player_index_in_game_state, run()
AgentToSeat ==
    /\ sm.pc = "start"
    /\ sm' = [sm EXCEPT !.pc = "seated", !.seat = PlayerPosition(sm.a, sm.o, sm.K)]
    /\ UNCHANGED seat_fixed

\* and that position back to the agent index: _play_hand
SeatBackToAgent ==
    /\ sm.pc = "seated"
    /\ sm' = [sm EXCEPT !.pc = "agent_back", !.back = ActualPlayerIdx(sm.seat, sm.o, sm.K)]
    /\ UNCHANGED seat_fixed

\* position a to the agent in it: get_players_in_position_order
SeatToAgent ==
    /\ sm.pc = "start"
    /\ sm' = [sm EXCEPT !.pc = "mapped", !.seat = PlayersInPositionOrder(sm.o, sm.K)[sm.a]]
    /\ UNCHANGED seat_fixed

\* and that agent back to its position
AgentBackToSeat ==
    /\ sm.pc = "mapped"
    /\ sm' = [sm EXCEPT !.pc = "seat_back", !.back = PlayerPosition(sm.seat, sm.o, sm.K)]
    /\ UNCHANGED seat_fixed

NextSeat ==
    \/ AgentToSeat
    \/ SeatBackToAgent
    \/ SeatToAgent
    \/ AgentBackToSeat

SpecSeat == InitSeat /\ [][NextSeat]_vars

(***************************************************************************)
(* The round end on its own, for matches longer than Hands: every round is *)
(* given by its outcome (the chips seat 0 loses to seat 1; the record      *)
(* starts from the stacks the blinds leave), and the settlement of         *)
(* _play_hand follows.  variant "awaited" is the round end of              *)
(* GameOrchestrator with the coroutine BasePlayer.update_memory run to its *)
(* end, as a caller that awaits it gets it.                                *)
(***************************************************************************)
Swings == {-1, 0, 1}

\* _create_human_readable_hand_summary: the profit it reports.  The record of
\* _play_hand has no player_names, so the loop that looks up my_profit is empty.
MyProfit(hand_result) == 0

\* _create_human_readable_hand_summary: "Hand #<id>: ... Won <n> chips." /
\* "Lost <n> chips." / "Broke even."
CreateHumanReadableHandSummary(hand_result) ==
    [hand_id |-> hand_result.hand_id,
     outcome |-> IF MyProfit(hand_result) > 0 THEN "Won"
                 ELSE IF MyProfit(hand_result) < 0 THEN "Lost" ELSE "Broke even",
     chips |-> IF MyProfit(hand_result) < 0 THEN -MyProfit(hand_result)
               ELSE MyProfit(hand_result)]

\* Player.update_memory: "Profit {profit_p0 if self.name == 'P0' else profit_p1}";
\* the agents are named Mr.Altman and Mr.Claude, never P0
PlayerSummaryProfit(hand_result, name) ==
    IF name = "P0" THEN hand_result.profit[0] ELSE hand_result.profit[1]

\* the names of the agents of Orchestrator
PlayerName(a) == IF a = 0 THEN "Mr.Altman" ELSE "Mr.Claude"

\* self.player_index = None: set in __init__ and assigned nowhere else
PlayerIndex == -1

\* hand["result"].get(f"profit_p{player_index}", 0)
ProfitOf(hand_result, player_index) ==
    IF player_index \in DOMAIN hand_result.profit THEN hand_result.profit[player_index]
    ELSE 0

\* _create_memory_summary, get_performance_metrics: total_wins
TotalWins(history) ==
    Cardinality({i \in 1..Len(history) : ProfitOf(history[i], PlayerIndex) > 0})

\* the win rate total_wins / len(self.hand_history), as << wins, rounds >>;
\* 0 with an empty history
WinRate(history) ==
    IF history = <<>> THEN <<0, 1>> ELSE <<TotalWins(history), Len(history)>>

\* update_memory with reflection: reflect_on_hand asks the provider, and the
\* answer is appended as "Hand reflection: ..."
WithReflection(conv, hand) ==
    Append(AskRecord(conv, Message("user", "reflection_prompt", hand), hand),
           Message("assistant", "reflection", hand))

\* update_memory: the summary is appended and the last 5 are kept
AppendSummary(summaries, summary) ==
    LET all == Append(summaries, summary)
    IN  IF Len(all) > SummaryCapacity
        THEN SubSeq(all, Len(all) - SummaryCapacity + 1, Len(all))
        ELSE all

InitMemory ==
    /\ variant \in {"main", "test", "awaited"}
    /\ nplayers = 2
    /\ config \in [enable_reflection : BOOLEAN, players : [Agents -> BOOLEAN]]
    /\ factory = FactoryOff
    /\ pc = "memory"
    /\ h = 0
    /\ dealer_position = 0
    /\ stack = [a \in Agents |-> InitialStack]
    /\ conversation_history = [a \in Agents |-> <<>>]
    /\ hand_history = [a \in Agents |-> <<>>]
    /\ notes = [a \in Agents |-> <<>>]
    /\ hand_summaries = [a \in Agents |-> <<>>]
    /\ st = NoEngine
    /\ hand_data = NoHand
    /\ request = NoRequest
    /\ transcript = <<>>
    /\ last = NoLast
    /\ error = NoError
    /\ turns = 0
    /\ report = NoReport
    /\ sm = SeatOff
    /\ observed = NothingObserved
    /\ render = RenderOff

\* one round from _make_state to the dealer rotation, its betting given by delta
MemoryRound(delta) ==
    /\ pc = "memory"
    /\ h < MaxRounds
    /\ LET order == PlayersInPositionOrder(dealer_position, nplayers)
           stacks == [i \in Seats(nplayers) |-> stack[order[i]]]
           final == [i \in Seats(nplayers) |->
                       IF i = 0 THEN stacks[i] - delta ELSE stacks[i] + delta]
           starting == [i \in Seats(nplayers) |->
                          stacks[i] - Min(BlindOf(i, nplayers), stacks[i])]
           done == [hand_id |-> HandNo(variant, h),
                    starting_stacks |-> starting,
                    actions |-> <<>>,
                    dealer_position |-> dealer_position,
                    final_stacks |-> final,
                    profit |-> Profit(final, starting, nplayers)]
       IN  IF InvalidStacks(stacks, nplayers)
           THEN /\ pc' = "crashed"
                /\ error' = [type |-> "ValueError", site |-> "make_state"]
                /\ UNCHANGED << h, dealer_position, agent_vars, hand_data, observed >>
           ELSE /\ hand_data' = done
                /\ stack' = UpdateStacks(stack, order, final, nplayers)
                /\ hand_history' =
                     IF variant = "main" THEN hand_history
                     ELSE [a \in Agents |-> Append(hand_history[a], done)]
                /\ hand_summaries' =
                     IF variant = "awaited"
                     THEN [a \in Agents |->
                             AppendSummary(hand_summaries[a],
                                           CreateHumanReadableHandSummary(done))]
                     ELSE hand_summaries
                /\ conversation_history' =
                     IF variant = "awaited"
                     THEN [a \in Agents |->
                             ClearConversationForNewHand(
                                 IF EnableReflection(config, a)
                                 THEN WithReflection(conversation_history[a], done.hand_id)
                                 ELSE conversation_history[a])]
                     ELSE IF variant = "test"
                     THEN [a \in Agents |->
                             PlayerUpdateMemoryConv(conversation_history[a], notes[a],
                                                    done.hand_id)]
                     ELSE conversation_history
                /\ dealer_position' = RotateDealer(dealer_position, nplayers)
                /\ h' = h + 1
                /\ observed' =
                     [observed EXCEPT
                        !.rounds = Append(@, done),
                        !.reflections =
                            IF variant = "awaited"
                            THEN @ \cup {<<a, done.hand_id>> : a \in
                                            {b \in Agents : EnableReflection(config, b)}}
                            ELSE @]
                /\ UNCHANGED << pc, error >>
    /\ UNCHANGED << variant, nplayers, config, factory, render, notes, st, request, transcript, last, turns,
                    report, sm >>

NextMemory == \E delta \in Swings : MemoryRound(delta)

SpecMemory == InitMemory /\ [][NextMemory]_vars

(***************************************************************************)
(* Whole rounds of Orchestrator (src/test.py) as single steps, so that a   *)
(* match of Hands rounds with play after the flop is covered: the betting  *)
(* loop is run to its end on the answers of the agents, which fold, check, *)
(* call or raise to the minimum the request names.                         *)
(***************************************************************************)
\* decisions of one round
MaxScript == 4

StatResponses(e) ==
    {WithCommentary(<<"fold">>), WithCommentary(<<"check">>), WithCommentary(<<"call">>),
     WithCommentary(<<"raise_to", ":">> \o IntToStr(MinRaiseTo(e)))}

\* one iteration of the betting loop on the answer r
LoopStep(acc, r, dealer, hand_id) ==
    LET e == acc.st
        agent == ActualPlayerIdx(ActorIndex(e), dealer, e.K)
        prompt == Message("user", "prompt", hand_id)
        parts == Split(DecisionReturn(r), "@")
        cand == Strip(parts[1])
        tok == Validate(cand)
        res == ApplyToken(e, tok)
    IN  [st |-> IF ~res.raised THEN res.st ELSE IF CanFold(e) THEN Fold(e) ELSE e,
         actions |-> Append(acc.actions, [player |-> agent, action |-> tok,
                                          commentary |-> parts[2]]),
         conv |-> [acc.conv EXCEPT ![agent] = AskRecord(@, prompt, hand_id)],
         preflop |-> IF e.street_index = 0
                     THEN acc.preflop \cup {<<hand_id, Len(acc.actions) + 1>>}
                     ELSE acc.preflop,
         fallbacks |-> IF ~LEGAL_TOKEN_RE(cand) \/ res.raised
                       THEN acc.fallbacks + 1 ELSE acc.fallbacks,
         crashed |-> res.raised /\ ~CanFold(e)]

\* while st.status: the ways the loop can run to its end within n decisions
RECURSIVE BettingLoop(_, _, _, _)
BettingLoop(acc, n, dealer, hand_id) ==
    IF acc.crashed \/ ActorIndex(acc.st) = -1 THEN {acc}
    ELSE IF n = 0 THEN {}
    ELSE UNION {BettingLoop(LoopStep(acc, r, dealer, hand_id), n - 1, dealer, hand_id) :
                    r \in StatResponses(acc.st)}

\* _play_hand of test.py from _make_state to the dealer rotation
PlayHand ==
    /\ pc = "idle"
    /\ h < Hands
    /\ LET order == PlayersInPositionOrder(dealer_position, nplayers)
           stacks == [i \in Seats(nplayers) |-> stack[order[i]]]
           hand_id == HandNo(variant, h)
       IN  IF InvalidStacks(stacks, nplayers)
           THEN /\ pc' = "crashed"
                /\ error' = [type |-> "ValueError", site |-> "make_state"]
                /\ UNCHANGED << h, dealer_position, agent_vars, st, hand_data, turns,
                                observed >>
           ELSE \E rank0 \in Ranks(CreateState(stacks, nplayers)) :
                LET created == Deal(CreateState(stacks, nplayers), rank0)
                    start == [st |-> created, actions |-> <<>>,
                              conv |-> conversation_history,
                              preflop |-> observed.preflop,
                              fallbacks |-> observed.fallbacks, crashed |-> FALSE]
                IN  \E played \in BettingLoop(start, MaxScript, dealer_position, hand_id) :
                    \E rank \in Ranks(played.st) :
                    LET final == Deal(played.st, rank)
                        done == [hand_id |-> hand_id,
                                 starting_stacks |-> created.stacks,
                                 actions |-> played.actions,
                                 dealer_position |-> dealer_position,
                                 final_stacks |-> final.stacks,
                                 profit |-> Profit(final.stacks, created.stacks, nplayers)]
                    IN  /\ st' = final
                        /\ turns' = turns + Len(played.actions)
                        /\ UNCHANGED << notes, hand_summaries >>
                        /\ IF played.crashed
                           THEN /\ pc' = "crashed"
                                /\ error' = [type |-> "ValueError", site |-> "forced_fold"]
                                /\ hand_data' = [done EXCEPT !.final_stacks = <<>>,
                                                             !.profit = <<>>]
                                /\ conversation_history' = played.conv
                                /\ observed' = [observed EXCEPT
                                                   !.fallbacks = played.fallbacks,
                                                   !.preflop = played.preflop]
                                /\ UNCHANGED << h, dealer_position, stack, hand_history >>
                           ELSE /\ hand_data' = done
                                /\ stack' = UpdateStacks(stack, order, final.stacks, nplayers)
                                /\ hand_history' =
                                     [a \in Agents |-> Append(hand_history[a], done)]
                                /\ conversation_history' =
                                     [a \in Agents |->
                                         PlayerUpdateMemoryConv(played.conv[a], notes[a],
                                                                hand_id)]
                                /\ dealer_position' = RotateDealer(dealer_position, nplayers)
                                /\ h' = h + 1
                                /\ observed' = [observed EXCEPT
                                                   !.rounds = Append(@, done),
                                                   !.fallbacks = played.fallbacks,
                                                   !.preflop = played.preflop]
                                /\ UNCHANGED << pc, error >>
    /\ UNCHANGED << variant, nplayers, config, factory, render, request, transcript, last, report, sm >>

InitStats == Init /\ variant = "test"

NextStats ==
    \/ PlayHand
    \/ RunReport

SpecStats == InitStats /\ [][NextStats]_vars

(***************************************************************************)
(* The rendering of a round's event log into the summary text              *)
(* (ActionConverter.to_human_readable and the loop and filter of           *)
(* _create_human_readable_hand_summary), on its own: the log is a sequence *)
(* of engine operations, each given by its class and the attributes the    *)
(* converter reads.                                                        *)
(***************************************************************************)
\* operations in one event log
MaxOperations == 3

Operation(cls, player_index, amount, amounts) ==
    [cls |-> cls, player_index |-> player_index, amount |-> amount, amounts |-> amounts]

Operations ==
    {Operation("Folding", 0, 0, <<>>),
     Operation("CheckingOrCalling", 1, 0, <<>>),
     Operation("CompletionBettingOrRaisingTo", 0, 2, <<>>),
     Operation("HoleDealing", 0, 0, <<>>),
     Operation("BoardDealing", 0, 0, <<>>),
     Operation("CardBurning", 0, 0, <<>>),
     Operation("BetCollection", 0, 0, <<>>),
     Operation("ChipsPulling", 1, 3, <<>>),
     Operation("ChipsPushing", 0, 0, <<0, 3>>),
     Operation("ChipsPushing", 0, 0, <<>>)}

\* get_player_name without player_names: f"Player {player_index}"
GetPlayerName(player_index) == <<"Player", " ">> \o IntToStr(player_index)

\* " and ".join(winners)
RECURSIVE JoinAnd(_)
JoinAnd(parts) ==
    IF parts = <<>> THEN <<>>
    ELSE IF Len(parts) = 1 THEN parts[1]
    ELSE parts[1] \o <<" ", "and", " ">> \o JoinAnd(Tail(parts))

\* ActionConverter.to_human_readable
ToHumanReadable(op) ==
    IF op.cls = "Folding" THEN GetPlayerName(op.player_index) \o <<" ", "folds">>
    ELSE IF op.cls = "CheckingOrCalling"
    THEN IF op.amount > 0
         THEN GetPlayerName(op.player_index) \o <<" ", "calls", " ">> \o IntToStr(op.amount)
         ELSE GetPlayerName(op.player_index) \o <<" ", "checks">>
    ELSE IF op.cls = "CompletionBettingOrRaisingTo"
    THEN GetPlayerName(op.player_index) \o <<" ", "raises", " ", "to", " ">>
             \o IntToStr(op.amount)
    ELSE IF op.cls = "BoardDealing" THEN <<"Board dealt:", " ", "cards">>
    ELSE IF op.cls = "HoleDealing"
    THEN GetPlayerName(op.player_index) \o <<" ", "dealt", " ", "hole", " ", "cards">>
    ELSE IF op.cls = "ChipsPulling"
    THEN GetPlayerName(op.player_index) \o <<" ", "pulls", " ", "chips", ":", " ">>
             \o IntToStr(op.amount)
    ELSE IF op.cls = "ChipsPushing"
    THEN IF op.amounts # <<>>
         THEN LET won == SelectSeq([i \in 1..Len(op.amounts) |-> i - 1],
                                   LAMBDA i : op.amounts[i + 1] > 0)
                  winners == [k \in 1..Len(won) |->
                                GetPlayerName(won[k]) \o <<" ", "wins", " ">>
                                    \o IntToStr(op.amounts[won[k] + 1])]
              IN  IF winners # <<>> THEN <<"trophy", " ">> \o JoinAnd(winners)
                  ELSE <<"No", " ", "winners", " ", "(split pot)">>
         ELSE <<"Chips", " ", "pushed">>
    ELSE IF op.cls = "CardBurning" THEN <<"Card", " ", "burned">>
    ELSE IF op.cls = "BetCollection" THEN <<>>
    ELSE <<op.cls>>

\* str.lower() of the words with a capital
Lower(text) ==
    [i \in 1..Len(text) |->
        IF text[i] = "Player" THEN "player"
        ELSE IF text[i] = "Card" THEN "card"
        ELSE IF text[i] = "Chips" THEN "chips"
        ELSE IF text[i] = "No" THEN "no"
        ELSE IF text[i] = "Board dealt:" THEN "board dealt:"
        ELSE IF text[i] = "Flop:" THEN "flop:"
        ELSE IF text[i] = "Turn:" THEN "turn:"
        ELSE IF text[i] = "River:" THEN "river:"
        ELSE text[i]]

\* needle in text
Contains(text, needle) ==
    \E i \in 0..(Len(text) - Len(needle)) : SubSeq(text, i + 1, i + Len(needle)) = needle

\* the same loop with a count of revealed cards that never advances
RECURSIVE ReadableActionsCountStuck(_, _)
ReadableActionsCountStuck(ops, board_cards_dealt) ==
    IF ops = <<>> THEN <<>>
    ELSE LET readable == ToHumanReadable(Head(ops))
         IN  IF Strip(readable) = <<>>
                    \/ Contains(Lower(readable), <<"dealt", " ", "hole", " ", "cards">>)
             THEN ReadableActionsCountStuck(Tail(ops), board_cards_dealt)
             ELSE IF StartsWith(readable, "Board dealt:")
             THEN <<<<"Flop:">> \o Tail(readable) \o <<".">>>>
                      \o ReadableActionsCountStuck(Tail(ops), board_cards_dealt)
             ELSE <<readable \o <<".">>>>
                      \o ReadableActionsCountStuck(Tail(ops), board_cards_dealt)

\* the loop over hand_result['pokerkit_operations']: empty renderings and the
\* hole cards are skipped, "Board dealt:" becomes the name of the street, and
\* a full stop is appended
RECURSIVE ReadableActions(_, _)
ReadableActions(ops, board_cards_dealt) ==
    IF ops = <<>> THEN <<>>
    ELSE LET readable == ToHumanReadable(Head(ops))
         IN  IF Strip(readable) = <<>>
                    \/ Contains(Lower(readable), <<"dealt", " ", "hole", " ", "cards">>)
             THEN ReadableActions(Tail(ops), board_cards_dealt)
             ELSE IF StartsWith(readable, "Board dealt:")
             THEN IF board_cards_dealt = 0
                  THEN <<<<"Flop:">> \o Tail(readable) \o <<".">>>>
                           \o ReadableActions(Tail(ops), 3)
                  ELSE IF board_cards_dealt = 3
                  THEN <<<<"Turn:">> \o Tail(readable) \o <<".">>>>
                           \o ReadableActions(Tail(ops), 4)
                  ELSE IF board_cards_dealt = 4
                  THEN <<<<"River:">> \o Tail(readable) \o <<".">>>>
                           \o ReadableActions(Tail(ops), 5)
                  ELSE <<readable \o <<".">>>> \o ReadableActions(Tail(ops), board_cards_dealt)
             ELSE <<readable \o <<".">>>> \o ReadableActions(Tail(ops), board_cards_dealt)

\* the phrases of the noise filter
Noise == {<<"card", " ", "burned">>, <<"chips", " ", "pushed">>, <<"chips", " ", "pulled">>}

\* filtered_actions: the actions in which no phrase of the filter occurs
FilteredActions(actions) ==
    SelectSeq(actions, LAMBDA a : \A x \in Noise : ~Contains(Lower(a), x))

\* the number of board-dealing operations of an event log
BoardDealings(ops) == Cardinality({i \in 1..Len(ops) : ops[i].cls = "BoardDealing"})

(***************************************************************************)
(* PlayerFactory (src/players/player_factory.py).                          *)
(***************************************************************************)
\* PlayerFactory.SUPPORTED_MODELS
SUPPORTED_MODELS ==
    [p \in {"openai", "gemini", "anthropic", "grok"} |->
        IF p = "openai" THEN <<"gpt-4o-mini">>
        ELSE IF p = "gemini" THEN <<"gemini-pro", "gemini-pro-vision">>
        ELSE IF p = "anthropic"
        THEN <<"claude-3-7-sonnet-latest", "claude-3-5-haiku-latest",
               "claude-opus-4-20250514", "claude-sonnet-4-20250514">>
        ELSE <<"grok-4">>]

\* PlayerFactory.get_supported_providers
GetSupportedProviders == DOMAIN SUPPORTED_MODELS

\* PlayerFactory.get_supported_models
GetSupportedModels(provider) ==
    IF provider \in DOMAIN SUPPORTED_MODELS
    THEN {SUPPORTED_MODELS[provider][i] : i \in 1..Len(SUPPORTED_MODELS[provider])}
    ELSE {}

\* model=None
None == "None"

Created(cls) == [cls |-> cls, raised |-> "none", message |-> "none"]
Raised(type, message) == [cls |-> "none", raised |-> type, message |-> message]

\* PlayerFactory.create_player
CreatePlayer(provider, model) ==
    IF provider \notin DOMAIN SUPPORTED_MODELS
    THEN Raised("ValueError", "Unsupported provider")
    ELSE LET chosen == IF model = None THEN SUPPORTED_MODELS[provider][1] ELSE model
         IN  IF chosen \notin GetSupportedModels(provider)
             THEN Raised("ValueError", "Model not supported for provider")
             ELSE IF provider = "openai" THEN Created("OpenAIPlayer")
             ELSE IF provider = "gemini" THEN Created("GeminiPlayer")
             ELSE IF provider = "anthropic" THEN Created("AnthropicPlayer")
             ELSE Raised("ValueError", "Unknown provider")

\* the providers and the models create_player is called with: those of the
\* registry, those of PLAYER_CONFIGS and of the all-in tests, and unknown ones
Providers == GetSupportedProviders \cup {"all-in", "callbox", "unknown"}
Models ==
    UNION {GetSupportedModels(p) : p \in GetSupportedProviders}
        \cup {None, "all-in-bot", "callbox-bot", "invalid-model"}

InitFactory ==
    /\ variant = "main"
    /\ nplayers = 2
    /\ config = ShippedConfig(nplayers)
    /\ \E p \in Providers : \E m \in Models :
          factory = [pc |-> "start", provider |-> p, model |-> m, result |-> NoPlayer]
    /\ pc = "factory"
    /\ h = 0
    /\ dealer_position = 0
    /\ stack = [a \in Agents |-> InitialStack]
    /\ conversation_history = [a \in Agents |-> <<>>]
    /\ hand_history = [a \in Agents |-> <<>>]
    /\ notes = [a \in Agents |-> <<>>]
    /\ hand_summaries = [a \in Agents |-> <<>>]
    /\ st = NoEngine
    /\ hand_data = NoHand
    /\ request = NoRequest
    /\ transcript = <<>>
    /\ last = NoLast
    /\ error = NoError
    /\ turns = 0
    /\ report = NoReport
    /\ observed = NothingObserved
    /\ render = RenderOff
    /\ sm = SeatOff

\* one call of PlayerFactory.create_player
CreatePlayerCall ==
    /\ factory.pc = "start"
    /\ factory' = [factory EXCEPT !.pc = "returned",
                                  !.result = CreatePlayer(factory.provider, factory.model)]
    /\ UNCHANGED << variant, nplayers, config, render, pc, h, dealer_position, agent_vars, st,
                    hand_data, request, transcript, last, error, turns, report, sm,
                    observed >>

NextFactory == CreatePlayerCall

SpecFactory == InitFactory /\ [][NextFactory]_vars

\* run() after the last hand, over every stack the agents may hold by then,
\* stacks that no longer sum to the chips brought to the table included
InitReport ==
    /\ variant \in {"main", "test"}
    /\ nplayers \in (IF variant = "test" THEN {2} ELSE 2..MaxPlayers)
    /\ config = ShippedConfig(nplayers)
    /\ factory = FactoryOff
    /\ pc = "idle"
    /\ h = Hands
    /\ dealer_position = Hands % nplayers
    /\ stack \in [Agents -> 0..(2 * InitialStack)]
    /\ conversation_history = [a \in Agents |-> <<>>]
    /\ hand_history = [a \in Agents |-> <<>>]
    /\ notes = [a \in Agents |-> <<>>]
    /\ hand_summaries = [a \in Agents |-> <<>>]
    /\ st = NoEngine
    /\ hand_data = NoHand
    /\ request = NoRequest
    /\ transcript = <<>>
    /\ last = NoLast
    /\ error = NoError
    /\ turns = 0
    /\ report = NoReport
    /\ observed = NothingObserved
    /\ render = RenderOff
    /\ sm = SeatOff

NextReport == RunReport

SpecReport == InitReport /\ [][NextReport]_vars

InitSummary ==
    /\ variant = "main"
    /\ nplayers = 2
    /\ config = ShippedConfig(nplayers)
    /\ factory = FactoryOff
    /\ pc = "summary"
    /\ h = 0
    /\ dealer_position = 0
    /\ stack = [a \in Agents |-> InitialStack]
    /\ conversation_history = [a \in Agents |-> <<>>]
    /\ hand_history = [a \in Agents |-> <<>>]
    /\ notes = [a \in Agents |-> <<>>]
    /\ hand_summaries = [a \in Agents |-> <<>>]
    /\ st = NoEngine
    /\ hand_data = NoHand
    /\ request = NoRequest
    /\ transcript = <<>>
    /\ last = NoLast
    /\ error = NoError
    /\ turns = 0
    /\ report = NoReport
    /\ sm = SeatOff
    /\ observed = NothingObserved
    /\ \E n \in 0..MaxOperations : \E ops \in [1..n -> Operations] :
          \* a hold'em round deals the board once per street after the first
          /\ BoardDealings(ops) <= LastStreet
          /\ render = [pc |-> "start", operations |-> ops, actions |-> <<>>]

\* _create_human_readable_hand_summary on a record with pokerkit_operations
RenderSummary ==
    /\ render.pc = "start"
    /\ render' = [render EXCEPT
                     !.pc = "rendered",
                     !.actions = FilteredActions(ReadableActions(render.operations, 0))]
    /\ UNCHANGED << variant, nplayers, config, factory, pc, h, dealer_position, agent_vars, st,
                    hand_data, request, transcript, last, error, turns, report, sm,
                    observed >>

NextSummary == RenderSummary

SpecSummary == InitSummary /\ [][NextSummary]_vars

\* a table of GameOrchestrator at which the first agent is an AllInPlayer
InitAllIn == Init /\ variant = "main"

NextAllIn ==
    \/ StartHand
    \/ Dispatch
    \/ RespondAllIn
    \/ \E r \in Responses : RespondOther(r)
    \/ Settle
    \/ RunReport

SpecAllIn == InitAllIn /\ [][NextAllIn]_vars

Next ==
    \/ StartHand
    \/ Dispatch
    \/ \E r \in Responses : Respond(r)
    \/ Settle
    \/ RunReport

Spec == Init /\ [][Next]_vars

\* the table under the scheduling of _play_hand: within a round the step that
\* can be taken is taken (the decision is requested, the provider call returns,
\* the round is settled once the betting loop has ended)
Fairness ==
    /\ WF_vars(Dispatch)
    /\ WF_vars(\E r \in Responses : Respond(r))
    /\ WF_vars(Settle)

SpecLive == Init /\ [][Next]_vars /\ Fairness

\* the table of Init on a standard output whose print calls may raise
NextNarration ==
    \/ StartHand
    \/ Dispatch
    \/ \E r \in Responses : Respond(r)
    \/ \E r \in Responses : RespondNarrationFails(r)
    \/ Settle
    \/ RunReport

SpecNarration == Init /\ [][NextNarration]_vars


(***************************************************************************)
(* Properties.  last is the turn handled last (its response, the candidate *)
(* token, the engine mutators invoked, the request it answered); request   *)
(* is the decision request in flight.                                      *)
(***************************************************************************)
Answered == last.agent # -1
LastRecorded == hand_data.actions[Len(hand_data.actions)]
ForcedFoldAccepted ==
    last.calls # <<>> /\ last.calls[Len(last.calls)] =
        [op |-> "fold", amount |-> 0, accepted |-> TRUE, seat |-> last.seat]

\* C1: whenever apply_token raises at a turn, a fold is forced for that seat and
\* accepted, and the betting loop goes on: no exception leaves the round, also at
\* turns where nothing is owed and the engine does not permit folding.
C1_ForcedFoldContinues ==
    last.raised => error.site # "forced_fold" /\ ForcedFoldAccepted

\* C2: a response without '@' is taken whole (stripped) as the candidate token
\* with empty commentary; when it fails the grammar the recorded and applied
\* action is fold, and the round continues.
C2_NoSeparatorFallsBack ==
    (Answered /\ Len(Split(last.rsp, "@")) = 1) =>
        /\ error.site # "parse"
        /\ last.parsed
        /\ last.token = Strip(last.rsp)
        /\ (~last.matched /\ last.hand = hand_data.hand_id) =>
                /\ LastRecorded.action = <<"fold">>
                /\ LastRecorded.commentary = <<>>
                /\ \A i \in 1..Len(last.calls) : last.calls[i].op = "fold"

NotOffered ==
    \/ last.token = <<"check">> /\ last.asked.game_state.to_call > 0
    \/ last.token = <<"call">> /\ last.asked.game_state.to_call = 0
    \/ StartsWith(last.token, "raise_to") /\ ~last.asked.can_raise

\* C4: a grammar-valid token that is not offered at the turn (check while an
\* amount is owed, call while nothing is owed, raise_to while raising is not
\* permitted) is never applied to the engine as a different move: the only
\* mutator the engine accepts at such a turn is the fallback fold.
C4_OnlyOfferedMovesApplied ==
    (last.parsed /\ last.matched /\ NotOffered) =>
        \A i \in 1..Len(last.calls) :
            last.calls[i].accepted => last.calls[i].op = "fold"

\* C5: the raise mutator of the engine is invoked only at turns where raising is
\* permitted, and only with an amount inside the range the engine reports.
C5_RaiseWithinRange ==
    \A i \in 1..Len(last.calls) :
        last.calls[i].op = "raise" =>
            /\ last.asked.can_raise
            /\ last.calls[i].amount >= last.asked.min_raise_to
            /\ last.calls[i].amount <= last.asked.max_raise_to

\* the agent the rotation offset puts in seat s
AgentOfSeat(s, offset) == CHOOSE a \in Agents : a = (s + offset) % nplayers
WinsOfSeats(a) ==
    Cardinality({i \in 1..Len(hand_history[a]) :
        \E s \in Seats(nplayers) :
            /\ AgentOfSeat(s, hand_history[a][i].dealer_position) = a
            /\ hand_history[a][i].profit[s] > 0})

C7_SeatRoundTrip ==
    /\ sm.pc \in {"seated", "mapped"} => sm.seat \in Seats(sm.K)
    /\ sm.pc \in {"agent_back", "seat_back"} => sm.back = sm.a

\* an agent index below the offset went to its seat and came back, at the largest K
C7_Witness ==
    /\ sm.pc = "agent_back"
    /\ sm.K = MaxK
    /\ sm.a < sm.o
    /\ sm.seat = sm.K + sm.a - sm.o

\* C8: dealer_position is 0 in the first round and moves by exactly 1 modulo the
\* number of agents after every completed round, so the offsets recorded in
\* consecutive round records differ by 1 mod K; the agent asked for seat s is
\* agents[(s + offset) mod K].
C8_DealerRotates ==
    /\ dealer_position = h % nplayers
    /\ hand_data # NoHand =>
          hand_data.dealer_position = (hand_data.hand_id - HandNo(variant, 0)) % nplayers
    /\ \A a \in Agents : \A i \in 1..Len(hand_history[a]) :
          /\ i = 1 => hand_history[a][i].dealer_position = 0
          /\ i > 1 => hand_history[a][i].dealer_position =
                          (hand_history[a][i - 1].dealer_position + 1) % nplayers
    /\ pc = "dispatched" =>
          request.agent = (request.seat + dealer_position) % nplayers

\* every round of a match was played and recorded, the offset wrapping round to 0
C8_Witness ==
    /\ pc = "done"
    /\ dealer_position = Hands % nplayers
    /\ \A a \in Agents :
          /\ Len(hand_history[a]) = Hands
          /\ hand_history[a][Hands].dealer_position = 0

\* C9: the transcript handed to the provider for a decision of a round holds no
\* decision prompt and no provider response of an earlier round.
C9_NoEarlierExchanges ==
    pc = "dispatched" =>
        \A i \in 1..Len(transcript) :
            transcript[i].tag \in {"prompt", "response"} =>
                transcript[i].hand = hand_data.hand_id

\* C10: after the round-end update of a completed round the conversation_history
\* of every agent of GameOrchestrator holds only reflections and notes reminders.
C10_HistoryClearedAfterRound ==
    (variant = "main" /\ pc = "idle" /\ h > 0) =>
        \A a \in Agents : \A i \in 1..Len(conversation_history[a]) :
            \/ ContainsReflection(conversation_history[a][i])
            \/ ContainsNotesReminder(conversation_history[a][i])

\* the summaries of the rounds from..to, as update_memory writes them
SummariesOfRounds(from, to) ==
    [i \in 1..(to - from + 1) |->
        CreateHumanReadableHandSummary(observed.rounds[from + i - 1])]

\* C11: the list of round summaries of an agent never holds more than 5 entries,
\* and once 5 or more rounds are completed it holds exactly the summaries of the
\* 5 most recent rounds, oldest first.
C11_FiveMostRecentSummaries ==
    variant # "test" =>
        \A a \in Agents :
            /\ Len(hand_summaries[a]) <= SummaryCapacity
            /\ (pc = "memory" /\ h >= SummaryCapacity) =>
                  /\ Len(hand_summaries[a]) = SummaryCapacity
                  /\ \A i \in 1..SummaryCapacity :
                        hand_summaries[a][i] =
                            SummariesOfRounds(h - SummaryCapacity + 1, h)[i]

\* the same for the agents whose update_memory is run to its end
C11_AwaitedOnly == variant = "awaited" => C11_FiveMostRecentSummaries

\* the rounds, among those settled, in which the seat of agent a made a profit
RoundsWonBy(a) ==
    {r \in 1..Len(observed.rounds) :
        observed.rounds[r].profit[(a - observed.rounds[r].dealer_position) % nplayers] > 0}

\* C12: at match end the win count reported for agent a is the number of completed
\* rounds whose record shows a positive profit for seat (a - offset) mod K, offset
\* being the one stored in that round's record.
C12_WinsFromRecordedOffsets ==
    pc = "done" => \A a \in Agents : report.wins[a] = Cardinality(RoundsWonBy(a))

\* C13: the per-seat profits of every round record sum to zero, and the profits
\* of all agents (stack - initial_stack) sum to zero after any number of rounds.
C13_ZeroSum ==
    /\ \A r \in 1..Len(observed.rounds) :
          SumOver(observed.rounds[r].profit, Seats(nplayers)) = 0
    /\ SumOver([a \in Agents |-> stack[a] - InitialStack], Agents) = 0

\* C14: in a two-agent match, when the first round is one immediate fold, the round
\* record gives the folding agent minus the configured small blind and the other
\* agent plus the configured small blind.
C14_ConfiguredBlindSteal ==
    (nplayers = 2 /\ observed.rounds # <<>>) =>
        LET first == observed.rounds[1]
        IN  (Len(first.actions) = 1 /\ first.actions[1].action = <<"fold">>) =>
                /\ first.profit[first.actions[1].player] = -BLINDS[1]
                /\ first.profit[1 - first.actions[1].player] = BLINDS[1]

\* C15: when an agent's stack is not positive as a round is about to be built,
\* _make_state fails: run() ends there with no new engine state, no decision
\* request, and no change to any agent's stack or memory or to the dealer
\* position; nothing happens after the failure.
C15_BustedStackStopsRound ==
    [][/\ (pc = "idle" /\ h < Hands /\ \E a \in Agents : stack[a] <= 0) =>
             /\ pc' = "crashed"
             /\ error' = [type |-> "ValueError", site |-> "make_state"]
             /\ UNCHANGED << st, request, transcript, turns, agent_vars,
                             dealer_position, h, observed >>
       /\ pc = "crashed" => UNCHANGED vars]_vars

\* a match stopped at the start of a later round because an agent had lost its stack
C15_Witness ==
    /\ pc = "crashed"
    /\ error.site = "make_state"
    /\ h > 0
    /\ \E a \in Agents : stack[a] = 0
    /\ ~st.status

\* C16: within a round one decision request at most is outstanding, it is for the
\* seat whose turn it is in the engine, the engine state does not change while it
\* is outstanding, and the next request is issued only after the response to the
\* previous one has been interpreted and applied.
C16_SequentialTurns ==
    /\ [](pc = "dispatched" =>
             /\ st.status /\ st.queue # <<>>
             /\ request.seat = Head(st.queue)
             /\ request.agent = (request.seat + dealer_position) % nplayers)
    /\ [][/\ pc = "dispatched" =>
                /\ request' = request
                /\ pc' # "dispatched"
                /\ last'.asked = request /\ last'.seat = request.seat
          /\ pc' = "dispatched" =>
                /\ pc = "loop"
                /\ st' = st
                /\ turns' = turns + 1
                /\ (turns > 0 => last.asked = request)]_vars

\* a second request is outstanding, for another seat than the one answered before
C16_Witness ==
    /\ pc = "dispatched"
    /\ turns >= 2
    /\ last.parsed
    /\ last.hand = hand_data.hand_id
    /\ last.seat # request.seat

\* C17: the illegal-move count reported at match end is the number of turns of the
\* match at which the fallback (fold forced after a grammar failure or after the
\* engine rejected the move) occurred.
C17_IllegalMovesCounted ==
    (variant = "main" /\ pc = "done") => report.illegal_moves = observed.fallbacks

\* C18: from the start of a round to its settlement the stack, the notes, the round
\* summaries and the round history of every agent stay as they are: requesting a
\* decision and handling the response write none of them.
C18_AgentStateFrozenInRound ==
    [][(pc \in {"loop", "dispatched"} /\ pc' \in {"loop", "dispatched", "crashed"}) =>
          UNCHANGED << stack, notes, hand_summaries, hand_history >>]_vars

IsPrefix(s, t) == Len(s) <= Len(t) /\ SubSeq(t, 1, Len(s)) = s
IsSuffix(s, t) == Len(s) <= Len(t) /\ SubSeq(t, Len(t) - Len(s) + 1, Len(t)) = s

\* C19: the notes of an agent only grow at their end: in every step the old notes
\* are a prefix of the new ones, and a response whose note payload is empty leaves
\* them as they are.
C19_NotesAppendOnly ==
    [][/\ \A a \in Agents : IsPrefix(notes[a], notes'[a])
       /\ (pc = "dispatched" /\ NoteLines(last'.raw) # <<>>
                             /\ NotePayload(last'.raw) = <<>>) =>
             notes' = notes]_vars

\* an agent that had noted something answered with an empty NOTES: line
C19_Witness ==
    /\ Answered
    /\ last.raw = WithCommentary(<<"call">>) \o <<"\n", "NOTES:">>
    /\ Len(notes[last.agent]) >= 2
    /\ notes[last.agent][Len(notes[last.agent])] = "n"

\* the note text the response carries: the lines from the NOTES: line on, the
\* marker (and the blank after it) taken off the lines that begin with it
ExpectedPayload(r) ==
    LET nl == NoteLines(r)
    IN  JoinLines([i \in 1..Len(nl) |->
                     IF StartsWith(nl[i], "NOTES:") THEN Strip(Tail(nl[i])) ELSE nl[i]])

\* C20: for a response with a NOTES: line after the action line, make_decision
\* returns the first line only, without any note text, and the notes gain exactly
\* the lines from the marker line on with only the marker removed: later lines of
\* the payload are kept intact.
C20_NotesSplitFromAction ==
    (Answered /\ NoteLines(last.raw) # <<>>) =>
        /\ last.rsp = Split(last.raw, "\n")[1]
        /\ \A i \in 1..Len(last.rsp) : last.rsp[i] # "NOTES:"
        /\ IsSuffix(ExpectedPayload(last.raw), notes[last.agent])

\* the text right of the first occurrence of sep in s
RightOfFirst(s, sep) == SubSeq(s, FirstIndex(s, sep, 1) + 1, Len(s))

\* C21: when the response holds one or more '@', the candidate token is the text
\* left of the first '@' and the commentary stored for the turn is the entire
\* text right of the first '@', further '@' characters included.
C21_CommentaryRightOfFirstSeparator ==
    (Answered /\ FirstIndex(last.rsp, "@", 1) # 0) =>
        /\ last.parsed
        /\ last.token = Strip(SubSeq(last.rsp, 1, FirstIndex(last.rsp, "@", 1) - 1))
        /\ last.hand = hand_data.hand_id =>
              LastRecorded.commentary = RightOfFirst(last.rsp, "@")

\* the token raise_to:n without whitespace, for a token raise_to:\s*n
Canonical(tok) == <<"raise_to", ":">> \o LStrip(SubSeq(tok, 3, Len(tok)))

\* C22: a response raise_to:, optional whitespace, digits n, '@', text is taken
\* as the action raise_to:n without whitespace inside, with commentary text, and
\* that canonical token is the action stored in the round record.
C22_CanonicalRaiseRecorded ==
    (Answered /\ last.parsed /\ last.matched /\ StartsWith(last.token, "raise_to")
              /\ last.hand = hand_data.hand_id) =>
        /\ LastRecorded.action = Canonical(last.token)
        /\ LastRecorded.commentary = RightOfFirst(last.rsp, "@")
        /\ \A i \in 1..Len(last.calls) :
              last.calls[i].op = "raise" =>
                  last.calls[i].amount = ToInt(SubSeq(Canonical(last.token), 3,
                                                      Len(Canonical(last.token))))

\* the rounds of agent a's history in which one of its recorded actions taken
\* before the first board cards satisfies voluntary
PreflopRounds(a, voluntary(_)) ==
    {i \in 1..Len(hand_history[a]) :
        \E k \in 1..Len(hand_history[a][i].actions) :
            /\ <<hand_history[a][i].hand_id, k>> \in observed.preflop
            /\ hand_history[a][i].actions[k].player = a
            /\ voluntary(hand_history[a][i].actions[k].action)}

\* C23: the VPIP and PFR counts of an agent count the rounds in which the agent
\* itself called or raised (for PFR: raised) before the first board cards; a
\* round in which its only call or raise came on the flop, turn or river is not
\* counted.
C23_PreflopActionsOnly ==
    (variant = "test" /\ pc = "done") =>
        \A a \in Agents :
            /\ report.vpip[a] =
                  Cardinality(PreflopRounds(a, LAMBDA t : t \notin {<<"fold">>, <<"check">>}))
            /\ report.pfr[a] =
                  Cardinality(PreflopRounds(a, LAMBDA t : StartsWith(t, "raise_to")))

\* the profit of the seat agent a had in the round of record
OwnProfit(a, record) ==
    record.profit[(a - record.dealer_position) % nplayers]

\* C24: the round summary an agent keeps after a round reports the agent's own
\* result: won N chips exactly when the profit of its seat was N > 0, lost N
\* chips exactly when it was -N < 0, broke even exactly when it was 0.
C24_SummaryReportsOwnResult ==
    (pc = "memory" /\ h > 0) =>
        \A a \in Agents :
            LET own == OwnProfit(a, hand_data)
            IN  IF variant = "test"
                THEN PlayerSummaryProfit(hand_data, PlayerName(a)) = own
                ELSE /\ hand_summaries[a] # <<>>
                     /\ LET said == hand_summaries[a][Len(hand_summaries[a])]
                        IN  /\ said.hand_id = hand_data.hand_id
                            /\ said.outcome = "Won" <=> own > 0
                            /\ said.outcome = "Lost" <=> own < 0
                            /\ said.outcome = "Broke even" <=> own = 0
                            /\ said.chips = IF own < 0 THEN -own ELSE own

\* C25: the win rate of an agent's memory block and performance metrics is the
\* fraction of the rounds in its history in which the seat it had made a profit.
C25_WinRateOfOwnSeat ==
    \A a \in Agents :
        hand_history[a] # <<>> =>
            WinRate(hand_history[a]) =
                <<Cardinality({i \in 1..Len(hand_history[a]) :
                                  OwnProfit(a, hand_history[a][i]) > 0}),
                  Len(hand_history[a])>>

\* C26: at each round end a reflection request is issued for an agent exactly
\* when reflection is enabled for it in the run configuration (by the global or
\* by its own toggle), and the reflection is stored for that round.
C26_ReflectionFollowsConfiguration ==
    (variant # "test" /\ pc = "memory" /\ h > 0) =>
        \A a \in Agents :
            (config.enable_reflection \/ config.players[a]) <=>
                /\ <<a, hand_data.hand_id>> \in observed.reflections
                /\ \E i \in 1..Len(conversation_history[a]) :
                      /\ ContainsReflection(conversation_history[a][i])
                      /\ conversation_history[a][i].hand = hand_data.hand_id

Offers(legal, tok) == \E i \in 1..Len(legal) : legal[i] = tok

\* C27: legal_tokens offers check exactly when the engine permits checking or
\* calling and nothing is owed, call exactly when it permits it and an amount is
\* owed, never both, and the token offered agrees with to_call of the
\* observation made of the same state.
C27_CheckOrCallByAmountOwed ==
    pc = "dispatched" =>
        /\ Offers(request.legal, <<"check">>) <=>
              (CanCheckOrCall(st) /\ CheckingOrCallingAmount(st) = 0)
        /\ Offers(request.legal, <<"call">>) <=>
              (CanCheckOrCall(st) /\ CheckingOrCallingAmount(st) > 0)
        /\ ~(Offers(request.legal, <<"check">>) /\ Offers(request.legal, <<"call">>))
        /\ Offers(request.legal, <<"check">>) => request.game_state.to_call = 0
        /\ Offers(request.legal, <<"call">>) => request.game_state.to_call > 0

\* check is offered to a seat that owes nothing, after call was offered to the
\* seat before it, which owed an amount
C27_Witness ==
    /\ pc = "dispatched"
    /\ Offers(request.legal, <<"check">>)
    /\ request.game_state.to_call = 0
    /\ last.hand = hand_data.hand_id
    /\ Offers(last.asked.legal, <<"call">>)
    /\ last.asked.game_state.to_call > 0

\* C28: for every engine state with an actor, legal_tokens is not empty and is,
\* in this order: fold if the engine permits folding, one of check and call, one
\* raise_to entry with the minimum raise-to amount and the actor's stack; the
\* raise_to entry is there also when raising is not permitted.
C28_LegalTokensOrder ==
    pc = "dispatched" =>
        LET legal == request.legal
            n == Len(legal)
        IN  /\ n = (IF CanFold(st) THEN 3 ELSE 2)
            /\ CanFold(st) => legal[1] = <<"fold">>
            /\ legal[n - 1] \in {<<"check">>, <<"call">>}
            /\ legal[n] = <<"raise_to", ":", " ">> \o IntToStr(request.min_raise_to)
                               \o <<" ", "to", " ">> \o IntToStr(st.stacks[request.seat])
            /\ \A i \in 1..(n - 1) : ~StartsWith(legal[i], "raise_to")

\* a seat that may not raise is offered fold, call and a raise_to entry
C28_Witness ==
    /\ pc = "dispatched"
    /\ ~request.can_raise
    /\ Len(request.legal) = 3
    /\ request.legal[2] = <<"call">>
    /\ StartsWith(request.legal[3], "raise_to")

\* C29: min_raise_to of the observation is the sentinel exactly when the engine
\* rejects raising to its minimum raise-to amount, and is that amount otherwise;
\* the sentinel equals no integer amount.
C29_SentinelWhenRaiseBarred ==
    /\ \A n \in 0..99 : CannotRaise # IntToStr(n)
    /\ pc = "dispatched" =>
          /\ request.game_state.min_raise_to = CannotRaise <=>
                ~CanRaiseTo(st, MinRaiseTo(st))
          /\ CanRaiseTo(st, MinRaiseTo(st)) =>
                request.game_state.min_raise_to = IntToStr(MinRaiseTo(st))

\* a seat that may not raise is asked after a seat that could
C29_Witness ==
    /\ pc = "dispatched"
    /\ request.game_state.min_raise_to = CannotRaise
    /\ last.hand = hand_data.hand_id
    /\ last.asked.can_raise
    /\ last.asked.game_state.min_raise_to = IntToStr(last.asked.min_raise_to)

\* the operations of internal bookkeeping: chips pulled, chips pushed, card burnt
Bookkeeping == {"ChipsPulling", "ChipsPushing", "CardBurning"}

\* C30: a rendered round summary holds no internal bookkeeping event: every
\* chips-pulling, chips-pushing and card-burning event of the event log is
\* absent from the summary, whatever their order and number.
C30_NoBookkeepingInSummary ==
    render.pc = "rendered" =>
        \A i \in 1..Len(render.operations) :
            render.operations[i].cls \in Bookkeeping =>
                \A k \in 1..Len(render.actions) :
                    render.actions[k] # ToHumanReadable(render.operations[i]) \o <<".">>

\* the lines of a rendered summary that report a board deal
BoardLines(actions) ==
    SelectSeq(actions, LAMBDA a : a[1] \in {"Flop:", "Turn:", "River:", "Board dealt:"})

StreetLabels == <<"Flop:", "Turn:", "River:">>

\* C31: in a rendered round summary every board-dealing event of the log has a
\* line, and the lines are labelled in order Flop, Turn, River: none keeps the
\* generic label "Board dealt:".
C31_BoardDealsRelabelled ==
    render.pc = "rendered" =>
        LET lines == BoardLines(render.actions)
        IN  /\ Len(lines) = BoardDealings(render.operations)
            /\ \A k \in 1..Len(lines) : lines[k][1] = StreetLabels[k]

\* a log with three board deals was rendered, the last one as the river
C31_Witness ==
    /\ render.pc = "rendered"
    /\ BoardDealings(render.operations) = 3
    /\ Len(render.actions) = 3
    /\ render.actions[3][1] = "River:"
TotalProfit == SumOver(report.profit, Agents)

AllInAnswered == Answered /\ last.agent = AllInAgent

AppliedCalls == SelectSeq(last.calls, LAMBDA c : c.accepted)

\* C36: a turn applies exactly one engine mutator, for the seat whose decision
\* was dispatched; no mutator is invoked for another seat, also when the printing
\* that follows a successful move raises.
C36_OneMutatorPerTurn ==
    (Answered /\ last.parsed) =>
        /\ Len(AppliedCalls) = 1
        /\ \A i \in 1..Len(last.calls) : last.calls[i].seat = last.seat
\* the registry as the all-in tests expect it
ExpectedModels(provider) ==
    IF provider = "all-in" THEN {"all-in-bot"} ELSE GetSupportedModels(provider)

\* C34: the factory registers the provider all-in with the model all-in-bot:
\* the provider is listed, create_player builds an AllInPlayer for it (with the
\* default model or all-in-bot), and a model that is not registered for a
\* registered provider raises ValueError.
C34_AllInRegistered ==
    /\ "all-in" \in GetSupportedProviders
    /\ factory.pc = "returned" =>
          /\ (factory.provider = "all-in" /\ factory.model \in {None, "all-in-bot"})
                => factory.result.cls = "AllInPlayer"
          /\ (/\ ExpectedModels(factory.provider) # {}
              /\ factory.model \notin ExpectedModels(factory.provider) \cup {None})
                => factory.result.raised = "ValueError"
\* C39: every provider that passes the validation of create_player is handed
\* to a player constructor: no call ends in the final "Unknown provider" branch.
C39_UnknownProviderUnreachable ==
    factory.pc = "returned" => factory.result.message # "Unknown provider"
\* a round is being played
RoundOpen == pc \in {"loop", "dispatched"}
\* the round was settled: the stacks were handed back and run() went on
RoundSettled == pc \in {"idle", "done"}
\* the bound on the decision requests of a run stops the betting loop
TurnsExhausted == pc = "loop" /\ turns = MaxTurns /\ st.status /\ ActorIndex(st) # -1

\* C35: whatever the providers answer, a round that was started is eventually
\* settled: no illegal move ends the round with an error.
C35_RoundEventuallySettles == RoundOpen ~> (RoundSettled \/ TurnsExhausted)
\* C37: the action recorded for a turn is the move that was applied to the
\* engine: a turn that ended in a forced fold, because the token failed the
\* grammar or because the engine rejected it, is recorded as fold.
C37_ForcedFoldRecorded ==
    (Answered /\ last.parsed /\ last.hand = hand_data.hand_id
        /\ (~last.matched \/ last.raised)) =>
            LastRecorded.action = <<"fold">>

\* C38: when the observation allows raising, the response of the AllInPlayer is
\* accepted by the engine and leaves the seat without chips behind.
C38_AllInCommitsStack ==
    (AllInAnswered /\ last.asked.game_state.min_raise_to # CannotRaise
        /\ pc \in {"loop", "crashed"}) =>
            /\ ~last.raised
            /\ st.stacks[last.seat] = 0
====
